---- MODULE Spec2Model ----
(***************************************************************************)
(* A model of dashboard.py: the cached loader load_data_optimized and the   *)
(* script that Streamlit re-executes top to bottom on every interaction.    *)
(*                                                                          *)
(* A data frame is a record [isNone, columns, rows]: columns is the         *)
(* sequence of column names, rows the sequence of rows, each row a sequence *)
(* of cells aligned with columns.  A cell of a text column is a string, NaN *)
(* standing for a missing value; a cell of the column that pd.to_numeric    *)
(* coerced is a set of integers, {} standing for NaN and {n} for n.         *)
(***************************************************************************)
EXTENDS Integers, Sequences, FiniteSets, TLC

\* Bounds of the model: the number of data rows of the CSV file, and the
\* number of widget changes a session makes after it opened the page.
MaxRows == 4

MaxClicks == 2

\* chunksize of pd.read_csv
ChunkSize == 50000

----------------------------------------------------------------------------
(* Values and strings *)

\* A missing cell of a text column.  read_csv turns the empty field, "NaN",
\* "nan", ... into it, so no text value of the table equals this marker.
NaN == "NaN"

\* Python's None, for a column name (no column is named by the empty string)
None == ""

\* The value of a data frame variable when the loader returned None
NoneDf == [isNone |-> TRUE, columns |-> <<>>, dtypes |-> <<>>, rows |-> <<>>]

Range(s) == {s[i] : i \in DOMAIN s}

\* Python's `c in col` on two strings: c is a substring of col
Contains(c, col) ==
    \E i \in 1..(Len(col) - Len(c) + 1) : SubSeq(col, i, i + Len(c) - 1) = c

\* Python's `x in list`
InList(x, list) == \E i \in DOMAIN list : list[i] = x

NA_VALUES == {"", "#N/A", "NA", "NULL", "NaN", "nan", "null", "None", "n/a"}

\* read_csv(dtype=str): a field is kept as text, the NA spellings become NaN
ReadField(s) == IF s \in NA_VALUES THEN NaN ELSE s

DigitVal(ch) ==
    CASE ch = "0" -> 0 [] ch = "1" -> 1 [] ch = "2" -> 2 [] ch = "3" -> 3
      [] ch = "4" -> 4 [] ch = "5" -> 5 [] ch = "6" -> 6 [] ch = "7" -> 7
      [] ch = "8" -> 8 [] ch = "9" -> 9 [] OTHER -> -1

IsDigits(s) ==
    /\ Len(s) > 0
    /\ \A i \in 1..Len(s) : DigitVal(SubSeq(s, i, i)) >= 0

RECURSIVE ParseInt(_)
ParseInt(s) ==
    IF Len(s) = 0 THEN 0
    ELSE 10 * ParseInt(SubSeq(s, 1, Len(s) - 1)) + DigitVal(SubSeq(s, Len(s), Len(s)))

\* pd.to_numeric(errors='coerce') on one cell: a number, or NaN ({})
ToNumeric(cell) == IF cell # NaN /\ IsDigits(cell) THEN {ParseInt(cell)} ELSE {}

\* Series.astype(str) on one cell of a text column: NaN becomes the text "nan"
AsTypeStr(cell) == IF cell = NaN THEN "nan" ELSE cell

\* The index of the first column named name (0 when there is none)
ColIdx(columns, name) ==
    IF InList(name, columns)
    THEN CHOOSE i \in DOMAIN columns :
            columns[i] = name /\ \A j \in 1..(i - 1) : columns[j] # name
    ELSE 0

RECURSIVE SetSum(_, _)
SetSum(f(_), S) ==
    IF S = {} THEN 0
    ELSE LET x == CHOOSE y \in S : TRUE IN f(x) + SetSum(f, S \ {x})

\* The subsequence of s at the positions where keep[i] holds
RECURSIVE SelectIdx(_, _, _)
SelectIdx(s, keep, i) ==
    IF i > Len(s) THEN <<>>
    ELSE (IF keep[i] THEN <<s[i]>> ELSE <<>>) \o SelectIdx(s, keep, i + 1)

----------------------------------------------------------------------------
(* The files: data.zip / Data.zip (one CSV) and code.csv *)

\* The header of the survey file and the pool its data rows are drawn from:
\* a file of n rows holds the first n.  Attock occurs under two provinces, the
\* second row answers S4C7 with the null marker, the fourth has no province,
\* no answer and the null marker as its age.
FullHeader ==
    <<"Province", "Region", "District", "Tehsil", "RSex", "S4C9", "S4C6", "S4C7",
      "S5C1">>

RowPool ==
    << <<"Punjab", "Urban", "Attock", "Hazro", "1", "Primary", "18", "Married", "Yes">>,
       <<"Sindh",  "Rural", "Attock", "Jand",  "1", "Primary", "19", "#NULL!", "No">>,
       <<"Punjab", "Rural", "Lahore", "Ravi",  "2", "Primary", "19", "Single", "No">>,
       <<"",       "Urban", "Lahore", "Ravi",  "1", "Primary", "#NULL!", "", "Yes">>,
       <<"Punjab", "Urban", "Attock", "Hazro", "2", "Middle",  "19", "Single", "No">>,
       <<"Sindh",  "Urban", "Thatta", "Sujawal", "2", "Middle", "19", "Married", "Yes">> >>

\* The column sets of the files tried: the full header, or one column missing
DropCol(seq, k) == [i \in 1..(Len(seq) - 1) |-> IF i < k THEN seq[i] ELSE seq[i + 1]]

CsvFile(n, drop) ==
    [header |-> IF drop = 0 THEN FullHeader ELSE DropCol(FullHeader, drop),
     rows   |-> [i \in 1..n |->
                    IF drop = 0 THEN RowPool[i] ELSE DropCol(RowPool[i], drop)]]

\* code.csv, line by line; read_csv takes the first line as the header
FirstCodebook ==
    << <<"Code", "Label">>,
       <<"S4C7", "Marital status">>,
       <<"S4C9", "Highest class passed">>,
       <<"Province", "Province of residence">> >>

Codebooks ==
    { FirstCodebook,
      << <<"Code", "Label">>,
         <<"S4C7", "Status">>,
         <<"S4C6", "Age">>,
         <<"S5C1", "Education status">>,
         <<"S4C7", "Marital status">> >>,
      << <<"Code">>,
         <<"S4C7">> >> }

\* The steps of the loader body at which the environment can make it raise
Faults == {"none", "read_csv", "concat", "read_codebook", "rename"}

----------------------------------------------------------------------------
(* 2. load_data_optimized *)

Exists(fs, name) ==
    CASE name = "data.zip" -> fs.lower
      [] name = "Data.zip" -> fs.upper
      [] name = "code.csv" -> fs.code
      [] OTHER -> FALSE

file_name(fs) == IF Exists(fs, "data.zip") THEN "data.zip" ELSE "Data.zip"

Min(a, b) == IF a <= b THEN a ELSE b

\* The batches pd.read_csv(chunksize=ChunkSize, dtype=str) yields
RECURSIVE ReadChunks(_, _)
ReadChunks(header, rows) ==
    IF Len(rows) = 0 THEN <<>>
    ELSE LET n == Min(ChunkSize, Len(rows)) IN
         << [columns |-> header,
             dtypes |-> [j \in DOMAIN header |-> "category"],
             rows |-> [i \in 1..n |->
                          [j \in DOMAIN header |-> ReadField(rows[i][j])]]] >>
         \o ReadChunks(header, SubSeq(rows, n + 1, Len(rows)))

\* AGE FIX: the first column named exactly S4C6 or Age is coerced to numbers
ChunkAgeCol(columns) ==
    IF \E i \in DOMAIN columns : columns[i] \in {"S4C6", "Age"}
    THEN columns[CHOOSE i \in DOMAIN columns :
                    /\ columns[i] \in {"S4C6", "Age"}
                    /\ \A j \in 1..(i - 1) : columns[j] \notin {"S4C6", "Age"}]
    ELSE None

CoerceChunk(chunk) ==
    LET age_col == ChunkAgeCol(chunk.columns) IN
    IF age_col = None THEN chunk
    ELSE [chunk EXCEPT
            !.dtypes = [j \in DOMAIN chunk.columns |->
                          IF chunk.columns[j] = age_col THEN "float64"
                          ELSE chunk.dtypes[j]],
            !.rows =
            [i \in DOMAIN chunk.rows |->
                [j \in DOMAIN chunk.columns |->
                    IF chunk.columns[j] = age_col
                    THEN ToNumeric(chunk.rows[i][j])
                    ELSE chunk.rows[i][j]]]]

\* pd.concat(chunks, axis=0)
RECURSIVE ConcatRows(_)
ConcatRows(chunks) ==
    IF chunks = <<>> THEN <<>> ELSE Head(chunks).rows \o ConcatRows(Tail(chunks))

Concat(chunks) ==
    [isNone |-> FALSE, columns |-> Head(chunks).columns,
     dtypes |-> Head(chunks).dtypes, rows |-> ConcatRows(chunks)]

PROTECTED_WithoutS4C9 ==
    <<"Province", "District", "Region", "Tehsil", "RSex", "S4C5", "S4C6",
      "Mouza", "Locality">>

PROTECTED ==
    <<"Province", "District", "Region", "Tehsil", "RSex", "S4C5", "S4C9", "S4C6",
      "Mouza", "Locality">>

\* f"{label} ({code})"
Label(label, code) == AsTypeStr(label) \o " (" \o AsTypeStr(code) \o ")"

\* pd.read_csv("code.csv"): the rows after the header line
ReadCodebook(lines) ==
    [i \in 1..(Len(lines) - 1) |->
        [j \in DOMAIN lines[i + 1] |-> ReadField(lines[i + 1][j])]]

\* codes.iloc[:, 1] raises when the codebook has fewer than two columns
CodebookRaises(lines) == Len(lines[1]) < 2

\* rename_dict, filled row by row: a later row of the same code replaces the
\* earlier one
RECURSIVE RenameDict(_)
RenameDict(codes) ==
    IF codes = <<>> THEN <<>>
    ELSE LET n == Len(codes)
             rest == RenameDict(SubSeq(codes, 1, n - 1))
             code == codes[n][1]
             label == codes[n][2]
         IN IF ~InList(code, PROTECTED)
            THEN SelectSeq(rest, LAMBDA e : e[1] # code) \o <<<<code, Label(label, code)>>>>
            ELSE rest

\* df.rename(columns=rename_dict, inplace=True)
Rename(df, rename_dict) ==
    [df EXCEPT !.columns =
        [j \in DOMAIN df.columns |->
            IF \E k \in DOMAIN rename_dict : rename_dict[k][1] = df.columns[j]
            THEN rename_dict[CHOOSE k \in DOMAIN rename_dict :
                                rename_dict[k][1] = df.columns[j]][2]
            ELSE df.columns[j]]]

\* An except branch that hands back what the body had built so far
Except_ReturnsPartial(partial, e) == [value |-> partial, error |-> "Error: " \o e]

\* The except branch: st.error(f"Error: {e}"); return None.  partial is what
\* the body had built when it raised.
Except(partial, e) == [value |-> NoneDf, error |-> "Error: " \o e]

\* The body of load_data_optimized.  fault is the step at which the
\* environment makes the body raise ("none": no step does).
load_data_optimized(fs, fault) ==
    IF ~Exists(fs, file_name(fs))
    THEN [value |-> NoneDf, error |-> "File not found: " \o file_name(fs)]
    ELSE
    LET chunks == ReadChunks(fs.csv.header, fs.csv.rows)
        coerced == [c \in DOMAIN chunks |-> CoerceChunk(chunks[c])]
        df == Concat(coerced)
        renamed == Rename(df, RenameDict(ReadCodebook(fs.codebook)))
    IN  IF fault = "read_csv" THEN Except(NoneDf, fault)
        ELSE IF fault = "concat" THEN Except(NoneDf, fault)
        ELSE IF coerced = <<>> THEN Except(NoneDf, "No objects to concatenate")
        ELSE IF ~Exists(fs, "code.csv") THEN [value |-> df, error |-> ""]
        ELSE IF fault = "read_codebook" THEN Except(df, fault)
        ELSE IF CodebookRaises(fs.codebook) THEN Except(df, "IndexError")
        ELSE IF fault = "rename" THEN Except(renamed, fault)
        ELSE [value |-> renamed, error |-> ""]

\* The steps the body executes, hence the faults that can strike it
CanStrike(fs, fault) ==
    \/ fault = "none"
    \/ fault \in {"read_csv", "concat"} /\ Exists(fs, file_name(fs))
    \/ /\ fault \in {"read_codebook", "rename"}
       /\ Exists(fs, file_name(fs)) /\ Exists(fs, "code.csv")
       /\ (fault = "rename" => ~CodebookRaises(fs.codebook))

----------------------------------------------------------------------------
(* 3. Dashboard logic: columns, widgets, the filter mask *)

\* The first candidate, in order, that is a substring of some column name
\* names the first such column
RECURSIVE get_col(_, _)
get_col(df, candidates) ==
    IF candidates = <<>> THEN None
    ELSE LET c == Head(candidates) IN
         IF \E j \in DOMAIN df.columns : Contains(c, df.columns[j])
         THEN df.columns[CHOOSE j \in DOMAIN df.columns :
                            /\ Contains(c, df.columns[j])
                            /\ \A k \in 1..(j - 1) : ~Contains(c, df.columns[k])]
         ELSE get_col(df, Tail(candidates))

\* df[name], and df[name].unique().tolist() as a set
Col(df, name) == [i \in DOMAIN df.rows |-> df.rows[i][ColIdx(df.columns, name)]]

Unique(df, name) == Range(Col(df, name))

\* The rows of df for which keep holds, as a new frame (boolean indexing)
FilterRows(df, keep) == [df EXCEPT !.rows = SelectIdx(df.rows, keep, 1)]

\* Series.isin(values); a missing cell is in values when NaN is
isin(series, values) == [i \in DOMAIN series |-> series[i] \in values]

\* The state Streamlit keeps of a widget between two runs of the script: the
\* options it was built with and the value the user gave it.  A widget built
\* with other options is a new widget and returns its default.
FreshWidget == [known |-> FALSE, options |-> {}, value |-> {}]

multiselect(state, options, default) ==
    IF state.known /\ state.options = options THEN state.value ELSE default

slider(state, min_value, max_value, value) ==
    IF state.known /\ state.options = {<<min_value, max_value>>}
    THEN state.value ELSE value

selectbox(state, options, index) ==
    IF options = <<>> THEN None
    ELSE IF state.known /\ state.options = {options} THEN state.value
    ELSE options[index + 1]

Rendered(options, value) == [known |-> TRUE, options |-> options, value |-> value]

FreshSlider == [known |-> FALSE, options |-> {}, value |-> <<0, 0>>]

FreshSelect == [known |-> FALSE, options |-> {}, value |-> None]

\* The widget states of a session that has not run the script yet
FreshSession ==
    [sel_prov |-> FreshWidget, sel_age |-> FreshSlider, sel_dist |-> FreshWidget,
     sel_tehsil |-> FreshWidget, sel_reg |-> FreshWidget, sel_sex |-> FreshWidget,
     sel_edu |-> FreshWidget, target_q |-> FreshSelect]

\* The numbers of a float64 column
Numbers(df, name) == UNION Range(Col(df, name))

SetMin(S) == CHOOSE x \in S : \A y \in S : x <= y

SetMax(S) == CHOOSE x \in S : \A y \in S : x >= y

\* int(df[age_col].min()) raises on a text column and on a column of NaN only
AgeRaises(df, age_col) ==
    IF df.dtypes[ColIdx(df.columns, age_col)] # "float64" THEN "TypeError"
    ELSE IF Numbers(df, age_col) = {} THEN "ValueError"
    ELSE ""

\* (df[age_col] >= lo) & (df[age_col] <= hi): False on NaN
AgeBetween(series, lo, hi) ==
    [i \in DOMAIN series |-> \E n \in series[i] : n >= lo /\ n <= hi]

\* --- FILTER MASK ---: pd.Series(True), then one `mask = mask & ...` per
\* facet whose condition holds; row i keeps True when every such term does
FilterMask(df, c, sel) ==
    [i \in DOMAIN df.rows |->
        /\ c.prov_col # None => isin(Col(df, c.prov_col), sel.sel_prov)[i]
        /\ c.age_col # None =>
              AgeBetween(Col(df, c.age_col), sel.sel_age[1], sel.sel_age[2])[i]
        /\ sel.sel_dist # {} => isin(Col(df, c.dist_col), sel.sel_dist)[i]
        /\ sel.sel_tehsil # {} => isin(Col(df, c.tehsil_col), sel.sel_tehsil)[i]
        /\ sel.sel_reg # {} => isin(Col(df, c.reg_col), sel.sel_reg)[i]
        /\ sel.sel_sex # {} => isin(Col(df, c.sex_col), sel.sel_sex)[i]
        /\ sel.sel_edu # {} => isin(Col(df, c.edu_col), sel.sel_edu)[i]]

\* mask.sum()
MaskSum(mask) == Cardinality({i \in DOMAIN mask : mask[i]})

\* # Get Columns
GetColumns(df) ==
    [prov_col   |-> get_col(df, <<"Province">>),
     reg_col    |-> get_col(df, <<"Region">>),
     dist_col   |-> get_col(df, <<"District">>),
     tehsil_col |-> get_col(df, <<"Tehsil">>),
     sex_col    |-> get_col(df, <<"S4C5", "RSex", "Gender">>),
     edu_col    |-> get_col(df, <<"S4C9", "Education", "Highest class">>),
     age_col    |-> get_col(df, <<"S4C6", "Age">>)]

\* valid_districts
ValidDistricts(df, c, sel_prov) ==
    IF sel_prov # {} /\ c.dist_col # None
    THEN Unique(FilterRows(df, isin(Col(df, c.prov_col), sel_prov)), c.dist_col)
    ELSE {}

\* valid_tehsils
ValidTehsils(df, c, sel_dist) ==
    IF sel_dist # {} /\ c.tehsil_col # None
    THEN Unique(FilterRows(df, isin(Col(df, c.dist_col), sel_dist)), c.tehsil_col)
    ELSE {}

\* The option list of Region, Gender and Education
OtherOptions(df, col) == IF col # None THEN Unique(df, col) ELSE {}

\* questions = [c for c in df.columns if c not in ignore]
Questions(df, c) ==
    LET ignore == {c.prov_col, c.reg_col, c.sex_col, c.dist_col, c.tehsil_col,
                   c.edu_col, c.age_col, "Mouza", "Locality", "PCode", "EBCode"}
    IN  SelectSeq(df.columns, LAMBDA x : x \notin ignore)

default_target == "Marital status (S4C7)"

\* questions.index(default_target) if default_target in questions else 0
default_index(questions) ==
    IF InList(default_target, questions) THEN ColIdx(questions, default_target) - 1 ELSE 0

----------------------------------------------------------------------------
(* 3. Dashboard logic: the statistics of the selected question *)

\* main_data = df: the shared table itself
Loc_NoCopy(df, mask, cols) == [alias |-> TRUE, frame |-> df]

\* df.loc[mask, cols_to_load]: a new frame, no view of df.  alias tells
\* whether the result is the object df itself.
Loc(df, mask, cols) ==
    [alias |-> FALSE,
     frame |-> [isNone |-> FALSE,
                columns |-> cols,
                dtypes |-> [j \in DOMAIN cols |-> df.dtypes[ColIdx(df.columns, cols[j])]],
                rows |-> SelectIdx([i \in DOMAIN df.rows |->
                                      [j \in DOMAIN cols |->
                                          df.rows[i][ColIdx(df.columns, cols[j])]]],
                                   mask, 1)]]

\* frame[name] = values: the column is replaced, or appended when new
SetCol(frame, name, values) ==
    IF InList(name, frame.columns)
    THEN [frame EXCEPT !.rows =
            [i \in DOMAIN frame.rows |->
                [j \in DOMAIN frame.columns |->
                    IF j = ColIdx(frame.columns, name) THEN values[i]
                    ELSE frame.rows[i][j]]]]
    ELSE [frame EXCEPT !.columns = Append(frame.columns, name),
                       !.dtypes = Append(frame.dtypes, "category"),
                       !.rows = [i \in DOMAIN frame.rows |->
                                    Append(frame.rows[i], values[i])]]

\* cols_to_load
ColsToLoad(c, target_q) ==
    <<target_q>> \o SelectSeq(<<c.prov_col, c.sex_col, c.reg_col, c.dist_col, c.age_col>>,
                              LAMBDA x : x # None)

\* main_data[target_q] = main_data[target_q].astype(str)
AsStr(frame, target_q) ==
    [SetCol(frame, target_q,
            [i \in DOMAIN frame.rows |-> AsTypeStr(Col(frame, target_q)[i])])
        EXCEPT !.dtypes[ColIdx(frame.columns, target_q)] = "object"]

\* main_data = main_data[main_data[target_q] != v]
DropValue(frame, target_q, v) ==
    FilterRows(frame, [i \in DOMAIN frame.rows |-> Col(frame, target_q)[i] # v])

\* # Clean Data
CleanData(frame, target_q) ==
    DropValue(DropValue(AsStr(frame, target_q), target_q, "#NULL!"), target_q, "nan")

\* The object df names after the assignment into main_data[target_q]: df
\* itself, untouched, unless main_data is df
SharedAfter(df, loc, target_q) == IF loc.alias THEN AsStr(loc.frame, target_q) ELSE df

\* The number of rows of frame whose cell in column name is v
CountOf(frame, name, v) ==
    Cardinality({i \in DOMAIN frame.rows : Col(frame, name)[i] = v})

\* Count / total * 100 with fillna(0), kept exact as <<numerator, denominator>>
Pct(count, total) == IF total = 0 THEN <<0, 1>> ELSE <<count * 100, total>>

\* Series.value_counts(): NaN is not counted
value_counts(frame, name) ==
    {[Value |-> v, Count |-> CountOf(frame, name, v)] : v \in Unique(frame, name) \ {NaN}}

\* counts, with its "%" column
Counts(main_data, target_q) ==
    LET vc == value_counts(main_data, target_q)
        total == SetSum(LAMBDA r : r.Count, vc)
    IN  {[Answer |-> r.Value, Count |-> r.Count, pct |-> Pct(r.Count, total)] : r \in vc}

\* groupby([by, target_q], observed=True).size(): the combinations that
\* occur; rows whose group value is missing are dropped
GroupSize(frame, by, target_q) ==
    {[grp |-> g, ans |-> a,
      Count |-> Cardinality({i \in DOMAIN frame.rows :
                                Col(frame, by)[i] = g /\ Col(frame, target_q)[i] = a})] :
        <<g, a>> \in {<<Col(frame, by)[i], Col(frame, target_q)[i]>> :
                        i \in {k \in DOMAIN frame.rows : Col(frame, by)[k] # NaN}}}

\* The grand total of the counts, whatever the group
GroupTotal_Grand(grp, g) == SetSum(LAMBDA r : r.Count, grp)

\* grp.groupby(by, observed=True)['Count'].transform('sum') for the rows of g
GroupTotal(grp, g) == SetSum(LAMBDA r : r.Count, {r \in grp : r.grp = g})

\* prov_grp / age_grp with the "%" column
GroupPct(frame, by, target_q) ==
    LET grp == GroupSize(frame, by, target_q) IN
    {[grp |-> r.grp, ans |-> r.ans, Count |-> r.Count,
      pct |-> Pct(r.Count, GroupTotal(grp, r.grp))] : r \in grp}

AgeBins == <<0, 18, 30, 45, 60, 100>>

AgeLabels == <<"<18", "18-30", "31-45", "46-60", "60+">>

\* pd.cut(x, bins=AgeBins, labels=AgeLabels): bin k is (bins[k], bins[k+1]]
Cut(cell) ==
    IF \E n \in cell : \E k \in DOMAIN AgeLabels : AgeBins[k] < n /\ n <= AgeBins[k + 1]
    THEN AgeLabels[CHOOSE k \in DOMAIN AgeLabels :
                      \E n \in cell : AgeBins[k] < n /\ n <= AgeBins[k + 1]]
    ELSE NaN

\* main_data['AgeGrp'] = pd.cut(main_data[age_col], ...)
WithAgeGrp(main_data, age_col) ==
    SetCol(main_data, "AgeGrp",
           [i \in DOMAIN main_data.rows |-> Cut(Col(main_data, age_col)[i])])

\* The order of Python's str on the characters of the answers
Alphabet ==
    " !#()-0123456789ABCDEFGHIJKLMNOPQRSTUVWXYZ_abcdefghijklmnopqrstuvwxyz"

Ord(ch) ==
    IF \E i \in 1..Len(Alphabet) : SubSeq(Alphabet, i, i) = ch
    THEN CHOOSE i \in 1..Len(Alphabet) : SubSeq(Alphabet, i, i) = ch
    ELSE 0

RECURSIVE StrLess(_, _)
StrLess(a, b) ==
    IF Len(b) = 0 THEN FALSE
    ELSE IF Len(a) = 0 THEN TRUE
    ELSE LET x == Ord(SubSeq(a, 1, 1))
             y == Ord(SubSeq(b, 1, 1))
         IN IF x # y THEN x < y
            ELSE StrLess(SubSeq(a, 2, Len(a)), SubSeq(b, 2, Len(b)))

\* Series.mode(): the most frequent values, sorted
Mode(frame, name) ==
    LET vc == value_counts(frame, name) IN
    {r.Value : r \in {x \in vc : \A y \in vc : y.Count <= x.Count}}

\* .value_counts().head(n).index: the n most frequent values, ties in the
\* order of first occurrence
Head_n(frame, name, n) ==
    LET vc == value_counts(frame, name)
        first(v) == CHOOSE i \in DOMAIN frame.rows :
                        /\ Col(frame, name)[i] = v
                        /\ \A k \in 1..(i - 1) : Col(frame, name)[k] # v
        ahead(x, y) == \/ x.Count > y.Count
                       \/ x.Count = y.Count /\ first(x.Value) < first(y.Value)
    IN  {y.Value : y \in {z \in vc : Cardinality({x \in vc : ahead(x, z)}) < n}}

\* # 6. DISTRICT TREEMAP
Treemap(main_data, dist_col, target_q) ==
    IF main_data.rows = <<>> THEN [raised |-> "KeyError", state |-> "none", top_ans |-> None]
    ELSE LET modes == Mode(main_data, target_q)
             top_ans == CHOOSE a \in modes : \A b \in modes : ~StrLess(b, a)
             top_10 == Head_n(main_data, dist_col, 10)
             subset == FilterRows(main_data, isin(Col(main_data, dist_col), top_10))
             dist_stats_columns == Unique(subset, target_q)
         IN  [raised |-> "",
              state |-> IF top_ans \in dist_stats_columns THEN "treemap"
                        ELSE "Data insufficient for map",
              top_ans |-> top_ans]

\* District Rankings: pd.crosstab(..., normalize='index'), shown unless empty
Ranking(main_data, dist_col, target_q) ==
    LET dist_pivot == GroupPct(main_data, dist_col, target_q) IN
    IF dist_pivot # {} THEN [state |-> "table", dist_pivot |-> dist_pivot]
    ELSE [state |-> "empty", dist_pivot |-> {}]

----------------------------------------------------------------------------
(* One run of the script, top to bottom *)

NoStats ==
    [target_q |-> None, main_data |-> NoneDf, counts |-> {}, prov_grp |-> {},
     gender_counts |-> {}, reg_counts |-> {}, age_grp |-> {},
     treemap |-> "none", top_ans |-> None, overall_table |-> FALSE,
     ranking |-> "none", dist_pivot |-> {}]

NoColumns ==
    [prov_col |-> None, reg_col |-> None, dist_col |-> None, tehsil_col |-> None,
     sex_col |-> None, edu_col |-> None, age_col |-> None]

NoSelection ==
    [sel_prov |-> {}, sel_age |-> <<0, 0>>, sel_dist |-> {}, sel_tehsil |-> {},
     sel_reg |-> {}, sel_sex |-> {}, sel_edu |-> {}]

NoOptions ==
    [prov_list |-> {}, age_range |-> <<0, 0>>, valid_districts |-> {},
     valid_tehsils |-> {}, reg_list |-> {}, sex_list |-> {}, edu_list |-> {},
     questions |-> <<>>]

\* What a run leaves on the page: view is "none" before the first run,
\* "awaiting" for st.info("Awaiting Data..."), "dashboard" otherwise; raised
\* is the exception that ended the run, "" when it ran to its end.
NoRun ==
    [view |-> "none", error |-> "", raised |-> "", cols |-> NoColumns,
     options |-> NoOptions, sel |-> NoSelection, filters |-> {},
     mask |-> <<>>, filtered_count |-> 0, total |-> 0, share |-> <<0, 1>>,
     stats |-> NoStats]

\* A run is written as the sequence of its steps, each taking the run so
\* far: e.df is df, e.w the widget states the run started with, e.run the
\* page, e.widgets the widget states the run leaves, e.shared the object the
\* cache holds.  A step after a raise does nothing.

Start(loaded, w) ==
    [df |-> loaded.value, w |-> w, widgets |-> FreshSession, shared |-> loaded.value,
     run |-> [NoRun EXCEPT !.view = "dashboard", !.error = loaded.error,
                           !.cols = GetColumns(loaded.value)]]

\* # 1. Province
StepProvince(e) ==
    LET prov_col == e.run.cols.prov_col
        prov_list == IF prov_col # None THEN Unique(e.df, prov_col) ELSE {}
    IN  [e EXCEPT !.run.options.prov_list = prov_list,
                  !.run.sel.sel_prov = multiselect(e.w.sel_prov, prov_list, prov_list),
                  !.run.filters = @ \cup {"Province"},
                  !.widgets.sel_prov =
                      Rendered(prov_list, multiselect(e.w.sel_prov, prov_list, prov_list))]

\* # 2. Age Range
StepAge(e) ==
    LET age_col == e.run.cols.age_col
        min_age == SetMin(Numbers(e.df, age_col))
        max_age == SetMax(Numbers(e.df, age_col))
    IN  IF e.run.raised # "" \/ age_col = None THEN e
        ELSE IF AgeRaises(e.df, age_col) # ""
        THEN [e EXCEPT !.run.raised = AgeRaises(e.df, age_col)]
        ELSE [e EXCEPT
                !.run.options.age_range = <<min_age, max_age>>,
                !.run.sel.sel_age =
                    slider(e.w.sel_age, min_age, max_age, <<min_age, max_age>>),
                !.run.filters = @ \cup {"Age Range"},
                !.widgets.sel_age =
                    Rendered({<<min_age, max_age>>},
                             slider(e.w.sel_age, min_age, max_age, <<min_age, max_age>>))]

\* # 3. District
StepDistrict(e) ==
    LET valid_districts == ValidDistricts(e.df, e.run.cols, e.run.sel.sel_prov) IN
    IF e.run.raised # "" THEN e
    ELSE [e EXCEPT !.run.options.valid_districts = valid_districts,
                   !.run.sel.sel_dist = multiselect(e.w.sel_dist, valid_districts, {}),
                   !.run.filters = @ \cup {"District"},
                   !.widgets.sel_dist =
                       Rendered(valid_districts,
                                multiselect(e.w.sel_dist, valid_districts, {}))]

\* # 4. Tehsil
StepTehsil(e) ==
    LET valid_tehsils == ValidTehsils(e.df, e.run.cols, e.run.sel.sel_dist) IN
    IF e.run.raised # "" THEN e
    ELSE [e EXCEPT !.run.options.valid_tehsils = valid_tehsils,
                   !.run.sel.sel_tehsil = multiselect(e.w.sel_tehsil, valid_tehsils, {}),
                   !.run.filters = @ \cup {"Tehsil"},
                   !.widgets.sel_tehsil =
                       Rendered(valid_tehsils,
                                multiselect(e.w.sel_tehsil, valid_tehsils, {}))]

\* # 5. Other Filters
StepRegion(e) ==
    LET reg_list == OtherOptions(e.df, e.run.cols.reg_col) IN
    IF e.run.raised # "" \/ e.run.cols.reg_col = None THEN e
    ELSE [e EXCEPT !.run.options.reg_list = reg_list,
                   !.run.sel.sel_reg = multiselect(e.w.sel_reg, reg_list, {}),
                   !.run.filters = @ \cup {"Region"},
                   !.widgets.sel_reg =
                       Rendered(reg_list, multiselect(e.w.sel_reg, reg_list, {}))]

StepGender(e) ==
    LET sex_list == OtherOptions(e.df, e.run.cols.sex_col) IN
    IF e.run.raised # "" \/ e.run.cols.sex_col = None THEN e
    ELSE [e EXCEPT !.run.options.sex_list = sex_list,
                   !.run.sel.sel_sex = multiselect(e.w.sel_sex, sex_list, {}),
                   !.run.filters = @ \cup {"Gender"},
                   !.widgets.sel_sex =
                       Rendered(sex_list, multiselect(e.w.sel_sex, sex_list, {}))]

StepEducation(e) ==
    LET edu_list == OtherOptions(e.df, e.run.cols.edu_col) IN
    IF e.run.raised # "" \/ e.run.cols.edu_col = None THEN e
    ELSE [e EXCEPT !.run.options.edu_list = edu_list,
                   !.run.sel.sel_edu = multiselect(e.w.sel_edu, edu_list, {}),
                   !.run.filters = @ \cup {"Education"},
                   !.widgets.sel_edu =
                       Rendered(edu_list, multiselect(e.w.sel_edu, edu_list, {}))]

\* --- FILTER MASK ---, --- KPI CARDS ---
StepMask(e) ==
    LET mask == FilterMask(e.df, e.run.cols, e.run.sel) IN
    IF e.run.raised # "" THEN e
    ELSE [e EXCEPT !.run.mask = mask,
                   !.run.filtered_count = MaskSum(mask),
                   !.run.total = Len(e.df.rows),
                   !.run.share = Pct(MaskSum(mask), Len(e.df.rows))]

\* --- MAIN QUESTION SELECTION ---
StepQuestion(e) ==
    LET questions == Questions(e.df, e.run.cols)
        target_q == selectbox(e.w.target_q, questions, default_index(questions))
    IN  IF e.run.raised # "" THEN e
        ELSE [e EXCEPT !.run.options.questions = questions,
                       !.run.stats.target_q = target_q,
                       !.widgets.target_q = Rendered({questions}, target_q)]

\* # Prepare Main Data, # Clean Data
StepMainData(e) ==
    LET target_q == e.run.stats.target_q
        loc == Loc(e.df, e.run.mask, ColsToLoad(e.run.cols, target_q))
    IN  IF e.run.raised # "" \/ target_q = None THEN e
        ELSE [e EXCEPT !.run.stats.main_data = CleanData(loc.frame, target_q),
                       !.shared = SharedAfter(e.df, loc, target_q)]

\* ROW 1: overall bar, province bar, gender donut
StepRow1(e) ==
    LET target_q == e.run.stats.target_q
        main_data == e.run.stats.main_data
        c == e.run.cols
    IN  IF e.run.raised # "" \/ target_q = None THEN e
        ELSE [e EXCEPT
                !.run.stats.counts = Counts(main_data, target_q),
                !.run.stats.prov_grp =
                    IF c.prov_col # None THEN GroupPct(main_data, c.prov_col, target_q)
                    ELSE {},
                !.run.stats.gender_counts =
                    IF c.sex_col # None THEN value_counts(main_data, c.sex_col) ELSE {}]

\* ROW 2: region pie, age trends
StepRow2(e) ==
    LET target_q == e.run.stats.target_q
        main_data == e.run.stats.main_data
        c == e.run.cols
    IN  IF e.run.raised # "" \/ target_q = None THEN e
        ELSE [e EXCEPT
                !.run.stats.reg_counts =
                    IF c.reg_col # None THEN value_counts(main_data, c.reg_col) ELSE {},
                !.run.stats.main_data =
                    IF c.age_col # None THEN WithAgeGrp(main_data, c.age_col)
                    ELSE main_data,
                !.run.stats.age_grp =
                    IF c.age_col # None
                    THEN GroupPct(WithAgeGrp(main_data, c.age_col), "AgeGrp", target_q)
                    ELSE {}]

\* ROW 2: district treemap
StepTreemap(e) ==
    LET target_q == e.run.stats.target_q
        tree == Treemap(e.run.stats.main_data, e.run.cols.dist_col, target_q)
    IN  IF e.run.raised # "" \/ target_q = None \/ e.run.cols.dist_col = None THEN e
        ELSE [e EXCEPT !.run.raised = tree.raised,
                       !.run.stats.treemap = tree.state,
                       !.run.stats.top_ans = tree.top_ans]

\* ROW 3: TABLES
StepRow3(e) ==
    LET target_q == e.run.stats.target_q
        rank == Ranking(e.run.stats.main_data, e.run.cols.dist_col, target_q)
    IN  IF e.run.raised # "" \/ target_q = None THEN e
        ELSE IF e.run.cols.dist_col = None
        THEN [e EXCEPT !.run.stats.overall_table = TRUE]
        ELSE [e EXCEPT !.run.stats.overall_table = TRUE,
                       !.run.stats.ranking = rank.state,
                       !.run.stats.dist_pivot = rank.dist_pivot]

\* The script from `df = load_data_optimized()` on, given the loader's
\* result and the widget states w of the session
Sidebar(loaded, w) ==
    StepEducation(StepGender(StepRegion(StepTehsil(StepDistrict(StepAge(
        StepProvince(Start(loaded, w))))))))

Script(loaded, w) ==
    IF loaded.value.isNone
    THEN [df |-> NoneDf, w |-> w, widgets |-> FreshSession, shared |-> loaded.value,
          run |-> [NoRun EXCEPT !.view = "awaiting", !.error = loaded.error]]
    ELSE StepRow3(StepTreemap(StepRow2(StepRow1(StepMainData(StepQuestion(StepMask(
            Sidebar(loaded, w))))))))

----------------------------------------------------------------------------
(* The state and the operations *)

VARIABLES
    fs,        \* the files: which exist, the CSV of the archive, code.csv
    cache,     \* st.cache_resource's entry for load_data_optimized
    calls,     \* how often the body of load_data_optimized has run
    widgets,   \* the widget states of the session
    clicks,    \* the widget changes the session has made
    run        \* the page the last run of the script left

vars == <<fs, cache, calls, widgets, clicks, run>>

EmptyCache == [filled |-> FALSE, value |-> NoneDf, error |-> "", fault |-> "none"]

\* A decorator that keeps nothing: the body runs on every call
cache_resource_Off(entry, files, fault) ==
    LET r == load_data_optimized(files, fault) IN
    [entry |-> [filled |-> TRUE, value |-> r.value, error |-> r.error, fault |-> fault],
     ran |-> TRUE]

\* @st.cache_resource: the body runs on a miss only, and its result (None
\* included) is kept for every later call
cache_resource(entry, files, fault) ==
    IF entry.filled THEN [entry |-> entry, ran |-> FALSE]
    ELSE LET r == load_data_optimized(files, fault) IN
         [entry |-> [filled |-> TRUE, value |-> r.value, error |-> r.error,
                     fault |-> fault],
          ran |-> TRUE]

Files(n, drop, lower, upper, code, codebook) ==
    [lower |-> lower, upper |-> upper, code |-> code,
     csv |-> CsvFile(n, drop), codebook |-> codebook]

\* The directories the program is started in: a two-row survey with every
\* combination of the three files around it, a two-row survey with the full
\* header or one column missing, and the surveys of up to MaxRows rows
StartFiles ==
    {Files(2, 0, lower, upper, code, codebook) :
        lower \in BOOLEAN, upper \in BOOLEAN, code \in BOOLEAN, codebook \in Codebooks}
    \cup
    {Files(2, drop, TRUE, FALSE, TRUE, FirstCodebook) : drop \in 0..Len(FullHeader)}
    \cup
    {Files(n, 0, TRUE, FALSE, TRUE, FirstCodebook) :
        n \in 2..Min(MaxRows, Len(RowPool))}

Init ==
    /\ fs \in StartFiles
    /\ cache = EmptyCache
    /\ calls = 0
    /\ widgets = FreshSession
    /\ clicks = 0
    /\ run = NoRun

\* One run of the script with the widget states w: the cached loader, then
\* the dashboard logic
RunScript(w) ==
    \E fault \in Faults :
        /\ CanStrike(fs, fault)
        /\ cache.filled => fault = "none"
        /\ LET ld == cache_resource(cache, fs, fault)
               res == Script(ld.entry, w)
           IN  /\ cache' = [ld.entry EXCEPT !.value = res.shared]
               /\ calls' = IF ld.ran THEN calls + 1 ELSE calls
               /\ widgets' = res.widgets
               /\ run' = res.run
        /\ UNCHANGED fs

\* A browser (re)loads the page: a session with no widget state
OpenPage == RunScript(FreshSession) /\ clicks' = 0

\* The values the user can change the multiselect `name` to: the other
\* subsets of the options it was built with
Choices(name) ==
    IF widgets[name].known
    THEN {[widgets EXCEPT ![name].value = S] :
            S \in (SUBSET widgets[name].options) \ {widgets[name].value}}
    ELSE {}

\* The user changes the selection of one multiselect
SelectProvince ==
    /\ clicks < MaxClicks
    /\ \E w \in Choices("sel_prov") : RunScript(w)
    /\ clicks' = clicks + 1

SelectDistrict ==
    /\ clicks < MaxClicks
    /\ \E w \in Choices("sel_dist") : RunScript(w)
    /\ clicks' = clicks + 1

SelectTehsil ==
    /\ clicks < MaxClicks
    /\ \E w \in Choices("sel_tehsil") : RunScript(w)
    /\ clicks' = clicks + 1

SelectRegion ==
    /\ clicks < MaxClicks
    /\ \E w \in Choices("sel_reg") : RunScript(w)
    /\ clicks' = clicks + 1

SelectGender ==
    /\ clicks < MaxClicks
    /\ \E w \in Choices("sel_sex") : RunScript(w)
    /\ clicks' = clicks + 1

SelectEducation ==
    /\ clicks < MaxClicks
    /\ \E w \in Choices("sel_edu") : RunScript(w)
    /\ clicks' = clicks + 1

\* The user moves the ends of the age slider
SlideAge ==
    /\ widgets.sel_age.known
    /\ clicks < MaxClicks
    /\ \E r \in widgets.sel_age.options :
        \E lo \in r[1]..r[2], hi \in r[1]..r[2] :
            /\ lo <= hi
            /\ <<lo, hi>> # widgets.sel_age.value
            /\ RunScript([widgets EXCEPT !.sel_age.value = <<lo, hi>>])
    /\ clicks' = clicks + 1

\* The user picks another question
SelectQuestion ==
    /\ widgets.target_q.known
    /\ clicks < MaxClicks
    /\ \E qs \in widgets.target_q.options :
        \E k \in DOMAIN qs :
            /\ qs[k] # widgets.target_q.value
            /\ RunScript([widgets EXCEPT !.target_q.value = qs[k]])
    /\ clicks' = clicks + 1

Next ==
    \/ OpenPage
    \/ SelectProvince
    \/ SlideAge
    \/ SelectDistrict
    \/ SelectTehsil
    \/ SelectRegion
    \/ SelectGender
    \/ SelectEducation
    \/ SelectQuestion

Spec == Init /\ [][Next]_vars

----------------------------------------------------------------------------
(* The properties *)

Loaded == cache.filled /\ ~cache.value.isNone

Dashboard == run.view = "dashboard"

\* The rows of frame whose cell in column name is v
RowsWith(frame, name, v) ==
    {i \in DOMAIN frame.rows : frame.rows[i][ColIdx(frame.columns, name)] = v}

\* C1: when neither data.zip nor Data.zip exists, or a step of the loader
\* raises (a fault of the environment, or a codebook with a single column),
\* the loader returns None with an error message, never the table built so
\* far; and whenever the loader returned None the page shows "Awaiting
\* Data..." only: no filter, no inclusion vector, no statistics.
C1_LoadFailureAllOrNothing ==
    /\ ( /\ cache.filled
         /\ \/ ~fs.lower /\ ~fs.upper
            \/ cache.fault # "none"
            \/ fs.code /\ Len(fs.codebook[1]) < 2 )
       => cache.value = NoneDf /\ cache.error # ""
    /\ (cache.filled /\ cache.value.isNone)
       => /\ run.view = "awaiting"
          /\ run.filters = {}
          /\ run.mask = <<>>
          /\ run.options = NoOptions
          /\ run.stats = NoStats
          /\ widgets = FreshSession

\* C1's case: the body raised while applying the codebook, after the table
\* had been read and concatenated
C1_Witness ==
    /\ cache.filled /\ cache.fault = "rename" /\ fs.lower
    /\ cache.value.isNone /\ run.view = "awaiting"

\* C2: over any sequence of script runs the body of load_data_optimized runs
\* at most once; once the cache holds its result, a run neither runs the body
\* again nor replaces the cached result.
C2_LoaderBodyRunsOnce ==
    [][calls' <= 1 /\ (cache.filled => calls' = calls /\ cache' = cache)]_vars

\* C2's case: the session has changed widgets twice since the page was
\* opened, so the script has run three times, and the body once
C2_Witness == calls = 1 /\ clicks = 2 /\ Dashboard /\ run.raised = ""

\* C3: once the loader has returned the table, no run of the script changes
\* its rows, column names, dtypes or cells.
C3_SharedTableNeverMutated ==
    [][Loaded => cache'.value = cache.value]_vars

\* C3's case: main_data has had its null-marker row removed and the AgeGrp
\* column added, and the shared table still has that row and no such column
C3_Witness ==
    /\ Loaded /\ Dashboard /\ run.stats.target_q # None
    /\ InList("AgeGrp", run.stats.main_data.columns)
    /\ ~InList("AgeGrp", cache.value.columns)
    /\ Len(run.stats.main_data.rows) < run.filtered_count
    /\ \E i \in DOMAIN cache.value.rows :
          cache.value.rows[i][ColIdx(cache.value.columns, run.stats.target_q)] = "#NULL!"

\* The selection sel with every facet whose selection is empty given all the
\* values of its column
Unconstrained(df, c, sel) ==
    LET all(col, chosen) == IF chosen = {} /\ col # None THEN Unique(df, col) ELSE chosen
    IN  [sel EXCEPT !.sel_prov = all(c.prov_col, @), !.sel_dist = all(c.dist_col, @),
                    !.sel_tehsil = all(c.tehsil_col, @), !.sel_reg = all(c.reg_col, @),
                    !.sel_sex = all(c.sex_col, @), !.sel_edu = all(c.edu_col, @)]

\* C4: a facet whose selection is empty, Province included, imposes no
\* constraint: the inclusion vector is the one obtained with all the values
\* of that facet selected.
C4_EmptySelectionIsNoConstraint ==
    (Loaded /\ Dashboard /\ run.mask # <<>>)
    => run.mask = FilterMask(cache.value, run.cols,
                             Unconstrained(cache.value, run.cols, run.sel))

\* C5: when no row is left for the selected question (no row matches the
\* facets, or every matching row has the null marker), the run ends without
\* raising, with empty counts and breakdowns, no treemap and no ranking.
C5_EmptyPopulationDegrades ==
    (Dashboard /\ run.stats.target_q # None /\ run.stats.main_data.rows = <<>>)
    => /\ run.raised = ""
       /\ run.stats.counts = {} /\ run.stats.prov_grp = {} /\ run.stats.age_grp = {}
       /\ run.stats.treemap \in {"none", "Data insufficient for map"}
       /\ run.stats.ranking \in {"none", "empty"}
       /\ run.stats.overall_table

\* C6 as stated: the codebook row ("S4C9", "Highest class passed") names the
\* column "Highest class passed (S4C9)", and Province keeps its raw name.
C6_S4C9Renamed ==
    (Loaded /\ fs.code)
    => /\ \A k \in 2..Len(fs.codebook) :
            (fs.codebook[k][1] = "S4C9" /\ InList("S4C9", fs.csv.header))
            => InList(fs.codebook[k][2] \o " (S4C9)", cache.value.columns)
       /\ InList("Province", fs.csv.header) => InList("Province", cache.value.columns)

\* C6, amended: column j of the survey keeps the name id of the header when
\* id is one of the ten protected identifiers or the codebook has no row for
\* it, and is named "label (id)" otherwise, label being that of the last
\* codebook row for id.
C6_CodebookRename ==
    Loaded =>
    /\ Len(cache.value.columns) = Len(fs.csv.header)
    /\ \A j \in DOMAIN fs.csv.header :
        LET id == fs.csv.header[j]
            rows_of_id == {k \in 2..Len(fs.codebook) : fs.codebook[k][1] = id}
            last == CHOOSE k \in rows_of_id : \A m \in rows_of_id : m <= k
        IN  IF \/ ~fs.code
               \/ rows_of_id = {}
               \/ id \in {"Province", "District", "Region", "Tehsil", "RSex", "S4C5",
                          "S4C9", "S4C6", "Mouza", "Locality"}
            THEN cache.value.columns[j] = id
            ELSE cache.value.columns[j] = fs.codebook[last][2] \o " (" \o id \o ")"

\* C6's case: a codebook with rows for S4C7, S4C9 and Province has been
\* applied
C6_Witness ==
    /\ Loaded /\ fs.code /\ fs.codebook = FirstCodebook
    /\ InList("Marital status (S4C7)", cache.value.columns)
    /\ InList("S4C9", cache.value.columns)
    /\ InList("Province", cache.value.columns)

\* C7: the districts offered are exactly those of the rows whose province is
\* selected, every tehsil offered occurs in a row whose province is selected,
\* and Region, Gender and Education offer all the values of their columns.
C7_OptionNarrowing ==
    (Loaded /\ Dashboard /\ run.raised = "")
    => LET df == cache.value
           c == run.cols
           in_prov == {i \in DOMAIN df.rows :
                          c.prov_col # None /\ Col(df, c.prov_col)[i] \in run.sel.sel_prov}
       IN  /\ c.dist_col # None =>
                run.options.valid_districts = {Col(df, c.dist_col)[i] : i \in in_prov}
           /\ \A t \in run.options.valid_tehsils :
                \E i \in in_prov : Col(df, c.tehsil_col)[i] = t
           /\ c.reg_col # None => run.options.reg_list = Unique(df, c.reg_col)
           /\ c.sex_col # None => run.options.sex_list = Unique(df, c.sex_col)
           /\ c.edu_col # None => run.options.edu_list = Unique(df, c.edu_col)

\* The breakdown grp of frame by the column `by`: each record's percentage
\* is 100 * Count over the number of rows of its group, and the percentages
\* of every group that occurs in frame sum to 100
NormalisedPerGroup(grp, frame, by) ==
    /\ \A r \in grp :
          /\ r.pct = <<100 * r.Count, Cardinality(RowsWith(frame, by, r.grp))>>
          /\ r.Count > 0
    /\ \A i \in DOMAIN frame.rows :
          LET g == frame.rows[i][ColIdx(frame.columns, by)]
              of_g == {r \in grp : r.grp = g}
              den == Cardinality(RowsWith(frame, by, g))
          IN  g # NaN =>
                /\ of_g # {}
                /\ SetSum(LAMBDA r : r.pct[1], of_g) = 100 * den
                /\ \A r \in of_g : r.pct[2] = den

\* C8: in the province breakdown and in the age-bucket breakdown every count
\* is divided by the number of included non-null rows of its group, so that
\* the percentages of every group present sum to 100.
C8_GroupedNormalisation ==
    (Dashboard /\ run.stats.target_q # None)
    => /\ run.cols.prov_col # None =>
            NormalisedPerGroup(run.stats.prov_grp, run.stats.main_data, run.cols.prov_col)
       /\ run.cols.age_col # None =>
            NormalisedPerGroup(run.stats.age_grp, run.stats.main_data, "AgeGrp")

\* C8's case: a province with two answers beside a province of another size,
\* and two age buckets
C8_Witness ==
    /\ Dashboard /\ run.raised = ""
    /\ \E r1, r2, r3 \in run.stats.prov_grp :
          /\ r1.grp = r2.grp /\ r1.ans # r2.ans /\ r3.grp # r1.grp
          /\ r3.pct[2] # r1.pct[2]
    /\ \E a1, a2 \in run.stats.age_grp : a1.grp # a2.grp

\* C9: a facet whose column is not found leaves the run without a raise and
\* takes away its own constraint only: the other facets whose columns were
\* found still offer the values of their columns (District all the districts
\* when Province is not found, Tehsil all the tehsils when District is not).
C9_UnresolvedFacetDisablesOnlyItself ==
    (Loaded /\ Dashboard /\ clicks = 0)
    => LET df == cache.value
           c == run.cols
       IN  /\ run.raised = ""
           /\ (c.prov_col = None /\ c.dist_col # None)
                => run.options.valid_districts = Unique(df, c.dist_col)
           /\ (c.dist_col = None /\ c.tehsil_col # None)
                => run.options.valid_tehsils = Unique(df, c.tehsil_col)
           /\ c.reg_col # None => run.options.reg_list = Unique(df, c.reg_col)
           /\ c.sex_col # None => run.options.sex_list = Unique(df, c.sex_col)
           /\ c.edu_col # None => run.options.edu_list = Unique(df, c.edu_col)

\* C10: with every facet at its all-values selection (all provinces, the
\* full age range, nothing chosen elsewhere) the inclusion vector is true for
\* every row, and the filtered count is the number of rows.
C10_AllValuesIncludesEveryRow ==
    ( /\ Loaded /\ Dashboard /\ run.raised = ""
      /\ run.sel.sel_prov = run.options.prov_list
      /\ run.sel.sel_age = run.options.age_range
      /\ run.sel.sel_dist = {} /\ run.sel.sel_tehsil = {} /\ run.sel.sel_reg = {}
      /\ run.sel.sel_sex = {} /\ run.sel.sel_edu = {} )
    => /\ \A i \in DOMAIN run.mask : run.mask[i]
       /\ run.filtered_count = Len(cache.value.rows)

====
